---- MODULE Spec2Model ----
(***************************************************************************)
(* A model of enc::XorConstant<T, ConstantValue, Seed> (XorConstant.hpp).  *)
(*                                                                         *)
(* A 64-bit word is a tuple of four 16-bit limbs, least significant limb   *)
(* first, so that every operation keeps its real width: the exclusive-or   *)
(* is bitwise over 64 bits, the addition and the subtraction wrap at 2^64. *)
(* The 128-bit cell (__m128i) is a record of two 64-bit lanes.             *)
(***************************************************************************)
EXTENDS Integers, Sequences, FiniteSets, TLC

\* ------------------------------------------------------------------ bounds
\* Threads that call the accessors concurrently.
NumThreads == 2
\* The small magnitudes 0..MaxSmall among the constants a declaration protects.
MaxSmall == 2
\* The line markers 1..MaxLine a key derivation is compared with.
MaxLine == 100

\* ------------------------------------------------- 64-bit words (uint64_t)
WordBits == 64
Base == 2^16
TopLimb == WordBits \div 16
Limbs == 1..TopLimb

\* The word of a number below 2^31.
W(n) == [k \in Limbs |-> IF k = 1 THEN n % Base
                          ELSE IF k = 2 THEN (n \div Base) % Base ELSE 0]
Zero == W(0)
One == W(1)
AllOnes == [k \in Limbs |-> Base - 1]
\* 0x8000000000000000
TopBit == [k \in Limbs |-> IF k = TopLimb THEN Base \div 2 ELSE 0]
\* 0xDEADBEEF0BADF00D, a word with no structure
Mixed == <<61453, 2989, 48879, 57005>>

RECURSIVE BitXor(_, _, _)
\* The exclusive-or of the low n bits of a and b.
BitXor(a, b, n) ==
    IF n = 0 THEN 0
    ELSE ((a + b) % 2) + 2 * BitXor(a \div 2, b \div 2, n - 1)

\* a ^ b on uint64_t
XorW(a, b) == [k \in Limbs |-> BitXor(a[k], b[k], 16)]

RECURSIVE CarryIn(_, _, _)
\* The carry into limb k of a + b.
CarryIn(a, b, k) ==
    IF k = 1 THEN 0 ELSE (a[k - 1] + b[k - 1] + CarryIn(a, b, k - 1)) \div Base

\* a + b on uint64_t: the carry out of bit 63 is dropped.
AddW(a, b) == [k \in Limbs |-> (a[k] + b[k] + CarryIn(a, b, k)) % Base]
\* The carry out of bit 63 of a + b (1 when the sum wraps).
CarryOut(a, b) == (a[TopLimb] + b[TopLimb] + CarryIn(a, b, TopLimb)) \div Base

RECURSIVE BorrowIn(_, _, _)
\* The borrow into limb k of a - b.
BorrowIn(a, b, k) ==
    IF k = 1 THEN 0
    ELSE IF a[k - 1] - b[k - 1] - BorrowIn(a, b, k - 1) < 0 THEN 1 ELSE 0

\* a - b on uint64_t: wraps below zero.
SubW(a, b) == [k \in Limbs |-> (a[k] - b[k] - BorrowIn(a, b, k)) % Base]

\* ------------------------------------------------------- the value types T
\* The arithmetic types a constant is declared with (static_assert, line 19).
IntTypes == {"int8_t", "uint8_t", "int16_t", "uint16_t",
             "int32_t", "uint32_t", "int64_t", "uint64_t"}
Types == IntTypes \cup {"bool", "double"}

IsSigned(T) == T \in {"int8_t", "int16_t", "int32_t", "int64_t"}
BitsOf(T) ==
    CASE T \in {"int8_t", "uint8_t"} -> 8
      [] T \in {"int16_t", "uint16_t"} -> 16
      [] T \in {"int32_t", "uint32_t"} -> 32
      [] OTHER -> WordBits

\* A value of type T.  For an integral T, bits is its object representation
\* (zero above the width of T) and the other fields are unused.  For double,
\* the value is (-1)^neg * (ovf * 2^64 + bits + frac / 100): bits is the
\* integral part of the magnitude, frac the hundredths after the point.
Val(b, n, f, o) == [bits |-> b, neg |-> n, frac |-> f, ovf |-> o]
IntVal(b) == Val(b, FALSE, 0, FALSE)
NoVal == IntVal(Zero)

\* The low `bits` bits of x, the rest cleared.
Truncate(x, bits) ==
    CASE bits = 8 -> <<x[1] % 256, 0, 0, 0>>
      [] bits = 16 -> <<x[1], 0, 0, 0>>
      [] bits = 32 -> <<x[1], x[2], 0, 0>>
      [] OTHER -> x

\* Bit (bits - 1) of x.
SignBit(x, bits) ==
    CASE bits = 8 -> (x[1] \div 128) % 2 = 1
      [] bits = 16 -> x[1] >= Base \div 2
      [] bits = 32 -> x[2] >= Base \div 2
      [] OTHER -> x[TopLimb] >= Base \div 2

\* x, a pattern of `bits` bits, with bit (bits - 1) copied into the bits above.
SignExtend(x, bits) ==
    IF SignBit(x, bits) THEN XorW(AllOnes, XorW(Truncate(AllOnes, bits), x)) ELSE x

\* static_cast<uint64_t>(value) of the macro: sign extension for a signed T,
\* zero extension for an unsigned one, 0 or 1 for bool, and for double the
\* integral part (the fraction is discarded).
ToUint64(T, v) ==
    CASE T = "double" -> v.bits
      [] T = "bool" -> v.bits
      [] OTHER -> IF IsSigned(T) THEN SignExtend(v.bits, BitsOf(T)) ELSE v.bits

RECURSIVE BitLen(_)
\* The number of significant bits of a limb.
BitLen(x) == IF x = 0 THEN 0 ELSE 1 + BitLen(x \div 2)

\* The integer nearest to the magnitude m among those a double holds exactly
\* (53 significant bits, ties to even), as <<bits, carry into 2^64>>.
RoundToDouble(m) ==
    LET d == BitLen(m[TopLimb]) - 5 IN
    IF d <= 0 THEN <<m, FALSE>>
    ELSE LET low == m[1] % (2^d)
             half == 2^(d - 1)
             kept == [m EXCEPT ![1] = m[1] - low]
             odd == (m[1] \div (2^d)) % 2 = 1
             up == low > half \/ (low = half /\ odd)
         IN IF up THEN <<AddW(kept, W(2^d)), CarryOut(kept, W(2^d)) = 1>>
            ELSE <<kept, FALSE>>

\* static_cast<double>(x) of an unsigned 64-bit x.
DoubleOfUint64(x) ==
    LET r == RoundToDouble(x) IN Val(r[1], FALSE, 0, r[2])
\* static_cast<double>(x) of x read as a signed 64-bit integer.
DoubleOfInt64(x) ==
    LET n == SignBit(x, WordBits)
        r == RoundToDouble(IF n THEN SubW(Zero, x) ELSE x)
    IN Val(r[1], n, 0, r[2])

\* static_cast<T>(x) of a 64-bit integer x; fromSigned tells whether the
\* operand is the __int64 of _mm_cvtsi128_si64 or a uint64_t.
StaticCast(T, x, fromSigned) ==
    CASE T = "double" -> IF fromSigned THEN DoubleOfInt64(x) ELSE DoubleOfUint64(x)
      [] T = "bool" -> IntVal(IF x = Zero THEN Zero ELSE One)
      [] OTHER -> IntVal(Truncate(x, BitsOf(T)))

\* ------------------------------------------------------------- the state
VARIABLES
    decl,             \* instance -> its declaration: T, value, Seed, line
    key64,            \* hash::key64 on the arguments the program evaluates
    m_encryptedData,  \* instance -> its 128-bit cell, two 64-bit lanes
    built,            \* the instances whose constructor has run
    thr               \* thread -> where it is in an accessor call

vars == <<decl, key64, m_encryptedData, built, thr>>

Threads == 1..NumThreads
Instances == {"a", "b"}
Live == DOMAIN decl

\* ------------------------------------------------------- __m128i intrinsics
MmSet1(x) == [lo |-> x, hi |-> x]
\* A slip of | for ^.
RECURSIVE BitOr(_, _, _)
BitOr(a, b, n) ==
    IF n = 0 THEN 0
    ELSE (IF (a % 2) + (b % 2) > 0 THEN 1 ELSE 0) + 2 * BitOr(a \div 2, b \div 2, n - 1)
OrW(a, b) == [k \in Limbs |-> BitOr(a[k], b[k], 16)]
MmOr(p, q) == [lo |-> OrW(p.lo, q.lo), hi |-> OrW(p.hi, q.hi)]
MmXor(p, q) == [lo |-> XorW(p.lo, q.lo), hi |-> XorW(p.hi, q.hi)]
\* One 128-bit addition: the carry out of lo enters hi.
MmAdd128(p, q) ==
    [lo |-> AddW(p.lo, q.lo),
     hi |-> AddW(AddW(p.hi, q.hi), W(CarryOut(p.lo, q.lo)))]
\* _mm_add_epi64 adds lane by lane: no carry passes from lo into hi.
MmAdd64(p, q) == [lo |-> AddW(p.lo, q.lo), hi |-> AddW(p.hi, q.hi)]
MmSub64(p, q) == [lo |-> SubW(p.lo, q.lo), hi |-> SubW(p.hi, q.hi)]
MmCvtsi128Si64(p) == p.lo
MmZero == MmSet1(Zero)

\* ------------------------------------------------------------------- keys
\* __LINE__ where XorKey and where AddKey are defined.
XorLine == 82
AddLine == 83

\* hash::key64<x>(): FnvHash.hpp is not part of the sources.  It is a
\* deterministic function of its argument and nothing else is known of it: on
\* the arguments the program evaluates it is the table key64, chosen freely when
\* the program is built, and elsewhere it is a fixed one-to-one mixing.
Key64(x) == IF x \in DOMAIN key64 THEN key64[x] ELSE XorW(x, Mixed)

\* One marker for both keys: Seed - __LINE__ taken on the line of AddKey.
XorKeyArgOneMarker(seed) == SubW(seed, W(AddLine))
\* Seed - __LINE__ and Seed + __LINE__ on uint64_t.
XorKeyArg(seed) == SubW(seed, W(XorLine))
AddKeyArg(seed) == AddW(seed, W(AddLine))

\* The marker taken where the instance is declared, not in the header.
XorKeyPerDeclaration(i) == Key64(SubW(decl[i].Seed, W(decl[i].line)))
XorKey(i) == Key64(XorKeyArg(decl[i].Seed))
AddKey(i) == Key64(AddKeyArg(decl[i].Seed))

\* The template argument ConstantValue of the instance the macro declares.
ConstantValue(i) == ToUint64(decl[i].T, decl[i].value)

\* ------------------------------------------------------------ XorConstant
\* The addition first and the exclusive-or second, as DecryptData would undo
\* them if it did not mirror the order.
EncryptDataSwapped(i, data) ==
    MmXor(MmAdd64(MmSet1(data), MmSet1(AddKey(i))), MmSet1(XorKey(i)))
\* The addition left out.
EncryptDataXorOnly(i, data) == MmXor(MmSet1(data), MmSet1(XorKey(i)))
\* The cell EncryptData(data) stores for instance i.
EncryptData(i, data) ==
    LET r0 == MmSet1(data)
        r1 == MmXor(r0, MmSet1(XorKey(i)))
        r2 == MmAdd64(r1, MmSet1(AddKey(i)))
    IN r2

\* The constructor: the cell starts as {} and EncryptData(ConstantValue) fills it.
Construct(i) ==
    /\ i \in Live \ built
    /\ m_encryptedData' = [m_encryptedData EXCEPT ![i] = EncryptData(i, ConstantValue(i))]
    /\ built' = built \cup {i}
    /\ UNCHANGED <<decl, key64, thr>>

\* What Get() returns on instance i.
Get(i) == StaticCast(decl[i].T, MmCvtsi128Si64(m_encryptedData[i]), TRUE)

Idle == [pc |-> "idle", obj |-> "a", result |-> MmZero, op |-> "none", ret |-> NoVal]

\* Thread t calls Get() on a constructed instance; the call is one read.
CallGet(t, i) ==
    /\ thr[t].pc = "idle"
    /\ i \in built
    /\ thr' = [thr EXCEPT ![t] = [Idle EXCEPT !.obj = i, !.op = "Get", !.ret = Get(i)]]
    /\ UNCHANGED <<decl, key64, m_encryptedData, built>>

\* Thread t calls GetCrypt() on a constructed instance and enters DecryptData.
CallGetCrypt(t, i) ==
    /\ thr[t].pc = "idle"
    /\ i \in built
    /\ thr' = [thr EXCEPT ![t] = [Idle EXCEPT !.pc = "L70", !.obj = i]]
    /\ UNCHANGED <<decl, key64, m_encryptedData, built>>

\* __m128i result = m_encryptedData;
Decrypt70(t) ==
    /\ thr[t].pc = "L70"
    /\ thr' = [thr EXCEPT ![t].result = m_encryptedData[thr[t].obj], ![t].pc = "L71"]
    /\ UNCHANGED <<decl, key64, m_encryptedData, built>>

\* The subtraction done on the member instead of the local copy.
Decrypt71InPlace(t) ==
    /\ thr[t].pc = "L71"
    /\ thr' = [thr EXCEPT ![t].result = MmSub64(thr[t].result, MmSet1(AddKey(thr[t].obj))),
                          ![t].pc = "L72"]
    /\ m_encryptedData' = [m_encryptedData EXCEPT ![thr[t].obj] =
                              MmSub64(thr[t].result, MmSet1(AddKey(thr[t].obj)))]
    /\ UNCHANGED <<decl, key64, built>>
\* result = _mm_sub_epi64(result, _mm_set1_epi64x(AddKey));
Decrypt71(t) ==
    /\ thr[t].pc = "L71"
    /\ thr' = [thr EXCEPT ![t].result = MmSub64(thr[t].result, MmSet1(AddKey(thr[t].obj))),
                          ![t].pc = "L72"]
    /\ UNCHANGED <<decl, key64, m_encryptedData, built>>

\* result = _mm_xor_si128(result, _mm_set1_epi64x(XorKey));
Decrypt72(t) ==
    /\ thr[t].pc = "L72"
    /\ thr' = [thr EXCEPT ![t].result = MmXor(thr[t].result, MmSet1(XorKey(thr[t].obj))),
                          ![t].pc = "L73"]
    /\ UNCHANGED <<decl, key64, m_encryptedData, built>>

\* return _mm_cvtsi128_si64(result); as uint64_t, then GetCrypt's static_cast<T>.
Decrypt73(t) ==
    /\ thr[t].pc = "L73"
    /\ thr' = [thr EXCEPT ![t] =
                 [Idle EXCEPT !.obj = thr[t].obj, !.op = "GetCrypt",
                              !.ret = StaticCast(decl[thr[t].obj].T,
                                                 MmCvtsi128Si64(thr[t].result), FALSE)]]
    /\ UNCHANGED <<decl, key64, m_encryptedData, built>>

\* ------------------------------------------------------------ the inputs
\* The patterns of width `bits`: all ones (-1, or the unsigned maximum), the
\* top bit alone (the signed minimum), all bits but the top (the signed maximum).
OnesOf(bits) == Truncate(AllOnes, bits)
MinOf(bits) ==
    CASE bits = 8 -> W(128)
      [] bits = 16 -> W(Base \div 2)
      [] bits = 32 -> <<0, Base \div 2, 0, 0>>
      [] OTHER -> TopBit
MaxOf(bits) == XorW(OnesOf(bits), MinOf(bits))

\* The values of type T a declaration may protect.  A double literal is not
\* negative and below 2^64: static_cast<uint64_t> of any other is no constant
\* expression and the declaration does not compile.
ValuesOf(T) ==
    CASE T = "bool" -> {IntVal(Zero), IntVal(One)}
      [] T = "double" ->
            {Val(W(k), FALSE, f, FALSE) : k \in 0..(MaxSmall + 1), f \in {0, 14}}
                \cup {Val(TopBit, FALSE, 0, FALSE)}
      [] OTHER ->
            {IntVal(W(k)) : k \in 0..MaxSmall}
                \cup {IntVal(OnesOf(BitsOf(T))), IntVal(MinOf(BitsOf(T))),
                      IntVal(MaxOf(BitsOf(T)))}

\* Seeds (hash::fnv64 of the file path): one below the line markers, so that
\* Seed - __LINE__ wraps, one at the top, so that Seed + __LINE__ wraps, and
\* one for which neither does.
Seeds == {Zero, AllOnes, W(74565)}
\* Keys the hash may give.
KeyVals == {Zero, One, AllOnes, TopBit, Mixed}
\* Lines of the user's file on which the macro is used.
DeclLines == {10, 11}

\* The declarations of type T in TS, with seed in SS, on a line in LS.
DeclsOf(TS, SS, LS) ==
    UNION {[T : {T}, value : ValuesOf(T), Seed : SS, line : LS] : T \in TS}

\* The arguments at which the instances of declarations d evaluate key64.
UsedArgs(d) == UNION {{XorKeyArg(d[i].Seed), AddKeyArg(d[i].Seed)} : i \in DOMAIN d}

\* The program with declarations drawn from D and keys from KV, nothing built.
InitWith(D, KV) ==
    /\ decl \in D
    /\ key64 \in [UsedArgs(decl) -> KV]
    /\ m_encryptedData = [i \in DOMAIN decl |-> MmZero]
    /\ built = {}
    /\ thr = [t \in Threads |-> Idle]

\* The steps of the threads in TS, and the constructors.
NextOf(TS) ==
    \/ \E i \in Instances : Construct(i)
    \/ \E t \in TS, i \in Instances : CallGet(t, i)
    \/ \E t \in TS, i \in Instances : CallGetCrypt(t, i)
    \/ \E t \in TS : Decrypt70(t)
    \/ \E t \in TS : Decrypt71(t)
    \/ \E t \in TS : Decrypt72(t)
    \/ \E t \in TS : Decrypt73(t)

\* One instance of any type, value, seed and keys, read by one thread.
InitValue == InitWith({"a" :> d : d \in DeclsOf(Types, Seeds, {10})}, KeyVals)
NextValue == NextOf({1})
SpecValue == InitValue /\ [][NextValue]_vars

\* Two instances of one type: in one file (one seed) with any two values, on
\* one line or two; or in two files (two seeds) with the same value.
PairTypes == {"bool", "int8_t", "uint32_t", "int64_t"}
PairValue(d) == d.value.bits \in {Zero, One, OnesOf(BitsOf(d.T))}
PairDecls ==
    LET DA == {d \in DeclsOf(PairTypes, {AllOnes}, {10}) : PairValue(d)}
        DB == {d \in DeclsOf(PairTypes, {AllOnes, W(74565)}, DeclLines) : PairValue(d)}
    IN {("a" :> p[1]) @@ ("b" :> p[2]) :
           p \in {q \in DA \X DB :
                    /\ q[1].T = q[2].T
                    /\ q[1].Seed # q[2].Seed =>
                           q[1].value = IntVal(One) /\ q[2].value = IntVal(One)}}
InitPair == InitWith(PairDecls, KeyVals \ {TopBit})
NextPair == NextOf({1})
SpecPair == InitPair /\ [][NextPair]_vars

\* Two instances of one file read by all the threads at once.
ConcTypes == {"int32_t", "uint64_t", "double"}
ConcDecls ==
    LET DA == {d \in DeclsOf(ConcTypes, {AllOnes}, {10}) :
                  IF d.T = "double" THEN d.value.bits = W(3)
                  ELSE d.value.bits \in {W(2), OnesOf(BitsOf(d.T))}}
        DB == {d \in DeclsOf({"uint64_t"}, {AllOnes}, {11}) : d.value = IntVal(One)}
    IN {("a" :> p[1]) @@ ("b" :> p[2]) : p \in DA \X DB}
Init == InitWith(ConcDecls, {AllOnes, Mixed})
Next == NextOf(Threads)
Spec == Init /\ [][Next]_vars
\* ---------------------------------------------------------------- claims
Integral(T) == T \in IntTypes \cup {"bool"}
KeyPair(i) == <<XorKey(i), AddKey(i)>>
\* key64 is one-to-one on the arguments the program evaluates.
InjectiveKeys == \A x, y \in UsedArgs(decl) : Key64(x) = Key64(y) => x = y
\* The addition of EncryptData wraps past 2^64 for instance i.
Wraps(i) == CarryOut(XorW(ConstantValue(i), XorKey(i)), AddKey(i)) = 1
\* Thread t has returned from a call of op on an instance.
Returned(t, op) == thr[t].pc = "idle" /\ thr[t].op = op

\* C1: GetCrypt() on an instance of an integral type returns exactly the value
\* the instance was declared with, whatever the seed and the keys, also when
\* the addition of EncryptData wraps.
C1_IntegerRoundTrip ==
    \A t \in Threads :
        Returned(t, "GetCrypt") /\ Integral(decl[thr[t].obj].T)
            => thr[t].ret = decl[thr[t].obj].value
\* A negative int8_t came back from GetCrypt() after an addition that wrapped.
C1_Witness ==
    \E t \in Threads :
        /\ Returned(t, "GetCrypt")
        /\ decl[thr[t].obj].T = "int8_t"
        /\ decl[thr[t].obj].value = IntVal(W(255))
        /\ thr[t].ret = IntVal(W(255))
        /\ Wraps(thr[t].obj)

\* C2: GetCrypt() on an instance of type double returns the double the
\* instance was declared with, fraction included.
C2_FloatRoundTrip ==
    \A t \in Threads :
        Returned(t, "GetCrypt") /\ decl[thr[t].obj].T = "double"
            => thr[t].ret = decl[thr[t].obj].value

\* C3: with at least one key nonzero, the low lane stored by the constructor
\* differs from the 64-bit constant.
C3_NonIdentity ==
    \A i \in built :
        (XorKey(i) # Zero \/ AddKey(i) # Zero)
            => m_encryptedData[i].lo # ConstantValue(i)
\* C3 as amended: with exactly one key nonzero the low lane differs from the
\* constant; in general it equals the constant exactly when
\* AddKey = constant - (constant XOR XorKey) mod 2^64.
C3_NonIdentityAmended ==
    \A i \in built :
        LET v == ConstantValue(i) IN
        /\ ((XorKey(i) = Zero) # (AddKey(i) = Zero)) => m_encryptedData[i].lo # v
        /\ m_encryptedData[i].lo = v <=> AddKey(i) = SubW(v, XorW(v, XorKey(i)))
\* The constant 0 built with only the additive key nonzero: the cell is not 0.
C3_Witness ==
    \E i \in built :
        /\ ConstantValue(i) = Zero
        /\ XorKey(i) = Zero /\ AddKey(i) # Zero
        /\ m_encryptedData[i].lo # Zero

\* C4: once an instance is built, no sequence of Get() and GetCrypt() calls
\* changes its cell, every Get() on it returns the same bits and every
\* GetCrypt() on it the same value.
C4_ReadsDoNotMutate ==
    /\ \A i \in built : m_encryptedData[i] = EncryptData(i, ConstantValue(i))
    /\ \A t \in Threads :
          LET i == thr[t].obj IN
          /\ Returned(t, "Get") =>
                thr[t].ret = StaticCast(decl[i].T, EncryptData(i, ConstantValue(i)).lo, TRUE)
          /\ Returned(t, "GetCrypt") =>
                thr[t].ret = StaticCast(decl[i].T, ConstantValue(i), FALSE)
    /\ \A t, u \in Threads :
          thr[t].pc = "idle" /\ thr[u].pc = "idle" /\ thr[t].op = thr[u].op
              /\ thr[t].op # "none" /\ thr[t].obj = thr[u].obj
              => thr[t].ret = thr[u].ret
\* Two threads have read one instance, one after a GetCrypt() of the other.
C4_Witness ==
    \E t, u \in Threads :
        /\ t # u /\ thr[t].obj = thr[u].obj
        /\ Returned(t, "GetCrypt") /\ Returned(u, "Get")
        /\ thr[t].ret # thr[u].ret

C6_ConcurrentDecrypt ==
    /\ \A t \in Threads :
          Returned(t, "GetCrypt") => thr[t].ret = decl[thr[t].obj].value
    /\ \A i \in built : m_encryptedData[i] = EncryptData(i, ConstantValue(i))

\* C7: after construction both lanes hold ((v XOR XorKey) + AddKey) mod 2^64:
\* the high lane equals the low one, no carry passes between them.
C7_BothLanes ==
    \A i \in built :
        /\ m_encryptedData[i].lo = AddW(XorW(ConstantValue(i), XorKey(i)), AddKey(i))
        /\ m_encryptedData[i].hi = m_encryptedData[i].lo
\* An instance built with an addition that wrapped in the low lane.
C7_Witness ==
    \E i \in built : Wraps(i) /\ m_encryptedData[i].hi = m_encryptedData[i].lo

\* C9: two instances of one integral type and one key pair return equal
\* values from Get() exactly when their declared values are equal.
C9_RawCompare ==
    \A i, j \in built :
        decl[i].T = decl[j].T /\ Integral(decl[i].T) /\ KeyPair(i) = KeyPair(j)
            => (Get(i) = Get(j) <=> decl[i].value = decl[j].value)
\* C9 as amended: the same for every integral type other than bool.
C9_RawCompareNotBool ==
    \A i, j \in built :
        decl[i].T = decl[j].T /\ decl[i].T \in IntTypes /\ KeyPair(i) = KeyPair(j)
            => (Get(i) = Get(j) <=> decl[i].value = decl[j].value)
\* Two int8_t instances of one key pair and different values, one of them
\* read by Get(): the raw reads differ.
C9_Witness ==
    /\ built = {"a", "b"}
    /\ decl["a"].T = "int8_t" /\ decl["b"].T = "int8_t"
    /\ KeyPair("a") = KeyPair("b")
    /\ decl["a"].value # decl["b"].value
    /\ Returned(1, "Get") /\ thr[1].ret = Get(thr[1].obj)
    /\ Get("a") # Get("b")

\* C10: there is one line marker m with XorKey = key64(Seed - m) and
\* AddKey = key64(Seed + m).
C10_SingleMarker ==
    \A i \in built :
        \E m \in 1..MaxLine :
            /\ XorKey(i) = Key64(SubW(decl[i].Seed, W(m)))
            /\ AddKey(i) = Key64(AddW(decl[i].Seed, W(m)))
\* C10 as amended: XorKey = key64((Seed - 82) mod 2^64) and
\* AddKey = key64((Seed + 83) mod 2^64): each key takes the marker of its
\* own line of the header, and the cell is built from these two keys.
C10_TwoMarkers ==
    \A i \in built :
        LET s == decl[i].Seed
            xk == Key64(SubW(s, W(82)))
            ak == Key64(AddW(s, W(83)))
        IN /\ s = Zero => SubW(s, W(82)) = <<65454, 65535, 65535, 65535>>
           /\ s = AllOnes => AddW(s, W(83)) = W(82)
           /\ m_encryptedData[i].lo = AddW(XorW(ConstantValue(i), xk), ak)
\* An instance built with seed 0, for which Seed - 82 wraps, and two
\* different keys.
C10_Witness ==
    \E i \in built :
        /\ decl[i].Seed = Zero
        /\ XorKey(i) = Key64(<<65454, 65535, 65535, 65535>>)
        /\ AddKey(i) = Key64(W(83))
        /\ XorKey(i) # AddKey(i)
====
